---- MODULE Spec2Model ----
(***************************************************************************)
(* Model of is-relative-url (src/index.js): the classifier isRelativeUrl,  *)
(* the absolute-URL detection isAbsoluteUrlInline with its three regular   *)
(* expressions, and the module-level LRUCache that memoizes verdicts.      *)
(*                                                                         *)
(* A JavaScript string is a sequence of one-character strings, so that     *)
(* prefix tests, regular expressions and the template literal that builds  *)
(* the cache key are computed character by character.                      *)
(***************************************************************************)
EXTENDS Integers, Sequences, FiniteSets, TLC

VARIABLES
    cache,      \* LRUCache.cache: the Map, as its entries in insertion order
    maxSize,    \* LRUCache.maxSize
    op,         \* the latest operation: "none", "isRelativeUrl" or "clear"
    call,       \* arguments of the latest isRelativeUrl call
    ret,        \* how that call ended: outcome, returned value, returning step
    used        \* keys in the order of their latest get (hit) or set through the
                \* cache handle since the last clear, latest last

vars == <<cache, maxSize, op, call, ret, used>>

----------------------------------------------------------------------------
(* Bounds and program constants *)

\* Capacity of the module's cache instance in the model (1000 in the source).
Capacity == 2

\* Longest tail appended to a head when isAbsoluteUrlInline is applied on its own.
MaxTail == 3

\* Largest capacity an LRUCache is constructed with when it is driven directly.
MaxCapacity == 3

\* url.length > 7 guards the literal-prefix fast path.
FastPathMinLength == 7

----------------------------------------------------------------------------
(* Characters *)

LowerCase == {"a","b","c","d","e","f","g","h","i","j","k","l","m",
              "n","o","p","q","r","s","t","u","v","w","x","y","z"}
UpperCase == {"A","B","C","D","E","F","G","H","I","J","K","L","M",
              "N","O","P","Q","R","S","T","U","V","W","X","Y","Z"}
Letter == LowerCase \cup UpperCase
Digit == {"0","1","2","3","4","5","6","7","8","9"}
\* [a-zA-Z\d+\-.]
SchemeChar == Letter \cup Digit \cup {"+", "-", "."}

\* String.prototype.startsWith
StartsWith(s, p) == Len(s) >= Len(p) /\ SubSeq(s, 1, Len(p)) = p

----------------------------------------------------------------------------
(* The three pre-compiled regular expressions, as RegExp.prototype.test *)

\* The lazily repeated class [a-zA-Z\d+\-.]*? followed by ':', tried from
\* position i: the class does not contain ':', so the scan is deterministic.
RECURSIVE SchemeTail(_, _)
SchemeTail(s, i) ==
    IF i > Len(s) THEN FALSE
    ELSE IF s[i] = ":" THEN TRUE
    ELSE IF s[i] \in SchemeChar THEN SchemeTail(s, i + 1)
    ELSE FALSE

\* Variant of the scan that demands "//" after the colon of the scheme.
RECURSIVE SchemeTailSlashes(_, _)
SchemeTailSlashes(s, i) ==
    IF i > Len(s) THEN FALSE
    ELSE IF s[i] = ":" THEN Len(s) >= i + 2 /\ s[i + 1] = "/" /\ s[i + 2] = "/"
    ELSE IF s[i] \in SchemeChar THEN SchemeTailSlashes(s, i + 1)
    ELSE FALSE

\* Variant that takes only scheme://
ABSOLUTE_URL_REGEX_slashes(s) ==
    Len(s) >= 1 /\ s[1] \in Letter /\ SchemeTailSlashes(s, 2)

\* Variant without the ^ anchor: a scheme may start anywhere.
ABSOLUTE_URL_REGEX_unanchored(s) ==
    \E i \in 1..Len(s) : s[i] \in Letter /\ SchemeTail(s, i + 1)

\* /^[a-zA-Z][a-zA-Z\d+\-.]*?:/
ABSOLUTE_URL_REGEX(s) ==
    Len(s) >= 1 /\ s[1] \in Letter /\ SchemeTail(s, 2)

\* Variant that never matches.
WINDOWS_PATH_REGEX_never(s) == FALSE

\* /^[a-zA-Z]:\\/
WINDOWS_PATH_REGEX(s) ==
    Len(s) >= 3 /\ s[1] \in Letter /\ s[2] = ":" /\ s[3] = "\\"

\* Variant that never matches.
PROTOCOL_RELATIVE_REGEX_never(s) == FALSE

\* /^\/\//
PROTOCOL_RELATIVE_REGEX(s) ==
    Len(s) >= 2 /\ s[1] = "/" /\ s[2] = "/"

----------------------------------------------------------------------------
(* Literal prefixes of the fast path *)

Http  == <<"h","t","t","p",":","/","/">>
Https == <<"h","t","t","p","s",":","/","/">>
File  == <<"f","i","l","e",":","/","/">>
\* The prefix typed without its colon
Data_noColon == <<"d","a","t","a">>
Data  == <<"d","a","t","a",":">>
Ftp   == <<"f","t","p",":","/","/">>
Ws    == <<"w","s",":","/","/">>
Wss   == <<"w","s","s",":","/","/">>

LiteralPrefixes == {Http, Https, File, Data, Ftp, Ws, Wss}

\* Inlined isAbsoluteUrl logic
isAbsoluteUrlInline(url) ==
    IF /\ Len(url) > FastPathMinLength
       /\ \/ StartsWith(url, Http) \/ StartsWith(url, Https)
          \/ StartsWith(url, File) \/ StartsWith(url, Data)
          \/ StartsWith(url, Ftp) \/ StartsWith(url, Ws) \/ StartsWith(url, Wss)
    THEN TRUE
    ELSE IF WINDOWS_PATH_REGEX(url) THEN FALSE
    ELSE ABSOLUTE_URL_REGEX(url)

----------------------------------------------------------------------------
(* LRUCache *)

Keys(c) == {c[i].key : i \in 1..Len(c)}

\* Map.prototype.has
Has(c, key) == key \in Keys(c)

\* Map.prototype.get on a key the map has
MapGet(c, key) == c[CHOOSE i \in 1..Len(c) : c[i].key = key].value

\* Map.prototype.delete
MapDelete(c, key) == SelectSeq(c, LAMBDA e : e.key # key)

\* Map.prototype.set: a key the map has keeps its position, a new key goes last
MapSet(c, key, value) ==
    IF Has(c, key)
    THEN [i \in 1..Len(c) |-> IF c[i].key = key
                              THEN [key |-> key, value |-> value] ELSE c[i]]
    ELSE Append(c, [key |-> key, value |-> value])

\* What LRUCache.get returns: undefined for a key the map does not have
LRUGet(c, key) ==
    IF ~Has(c, key)
    THEN [defined |-> FALSE, value |-> FALSE]
    ELSE [defined |-> TRUE, value |-> MapGet(c, key)]

\* Variant that leaves the entry where it was
LRUGetCache_noMove(c, key) == c

\* Variant that deletes the entry and does not add it again
LRUGetCache_dropped(c, key) == MapDelete(c, key)

\* The map LRUCache.get leaves: the entry read is moved to the end
LRUGetCache(c, key) ==
    IF ~Has(c, key) THEN c
    ELSE MapSet(MapDelete(c, key), key, MapGet(c, key))

\* Variant that evicts only once the size exceeds maxSize
LRUSet_offByOne(c, max, key, value) ==
    LET kept == IF Has(c, key) THEN MapDelete(c, key)
                ELSE IF Len(c) > max /\ Len(c) > 0 THEN MapDelete(c, c[1].key)
                ELSE c
    IN  MapSet(kept, key, value)

\* Variant that evicts the newest entry
LRUSet_evictsNewest(c, max, key, value) ==
    LET kept == IF Has(c, key) THEN MapDelete(c, key)
                ELSE IF Len(c) >= max /\ Len(c) > 0 THEN MapDelete(c, c[Len(c)].key)
                ELSE c
    IN  MapSet(kept, key, value)

\* Variant that tests the capacity before the presence of the key
LRUSet_capacityFirst(c, max, key, value) ==
    LET kept == IF Len(c) >= max /\ Len(c) > 0
                THEN MapDelete(MapDelete(c, c[1].key), key)
                ELSE MapDelete(c, key)
    IN  MapSet(kept, key, value)

\* Variant that empties a full map instead of evicting one entry
LRUSet_flushWhenFull(c, max, key, value) ==
    LET kept == IF Has(c, key) THEN MapDelete(c, key)
                ELSE IF Len(c) >= max THEN <<>>
                ELSE c
    IN  MapSet(kept, key, value)

\* The map LRUCache.set leaves
LRUSet(c, max, key, value) ==
    LET kept == IF Has(c, key) THEN MapDelete(c, key)
                ELSE IF Len(c) >= max /\ Len(c) > 0 THEN MapDelete(c, c[1].key)
                ELSE c
    IN  MapSet(kept, key, value)

----------------------------------------------------------------------------
(* JavaScript values passed to isRelativeUrl *)

Str(chars) == [type |-> "string", chars |-> chars]

\* typeof url === 'string', dropped altogether
IsString_always(v) == TRUE

\* typeof url === 'string'
IsString(v) == v.type = "string"

OptionsOmitted == "undefined"
OptionsNull    == "null"
OptionsTrue    == "{allowProtocolRelative: true}"
OptionsFalse   == "{allowProtocolRelative: false}"

\* Destructuring null throws a TypeError; an omitted argument takes the default {}
DestructuringThrows(options) == options = OptionsNull

\* The option, ignored
AllowProtocolRelative_ignored(options) == TRUE

\* const {allowProtocolRelative = true} = options
AllowProtocolRelative(options) == options # OptionsFalse

StrictTag == <<"s","t","r","i","c","t",":">>

\* The key without the tag
CacheKey_untagged(url, allowProtocolRelative) == url

\* allowProtocolRelative ? url : `strict:${url}`
CacheKey(url, allowProtocolRelative) ==
    IF allowProtocolRelative THEN url ELSE StrictTag \o url

----------------------------------------------------------------------------
(* Inputs *)

BoxedString == [type |-> "object", chars |-> Http \o <<"a">>]  \* new String('http://a')
Number42    == [type |-> "number", chars |-> <<>>]

NonStrings == {BoxedString, Number42}

PlainStrings ==
    { <<>>, <<"a">>, <<"/","a",":">>, <<"/","/">>, <<"/","/","a">> }

SchemeStrings == { <<"a",":">>, <<"a","1","+","-",".",":","b">> }

WindowsStrings == { <<"C",":","\\","a">> }

\* Each literal prefix alone, and three of them followed by more characters
LiteralStrings ==
    LiteralPrefixes \cup {p \o <<"a","a","a">> : p \in {Http, Data, Ws}}

TaggedStrings == { StrictTag \o <<"a">> }

Strings == PlainStrings \cup SchemeStrings \cup WindowsStrings
           \cup LiteralStrings \cup TaggedStrings

\* Strings also classified with allowProtocolRelative: false
StrictStrings ==
    { <<>>, <<"a">>, <<"/","/">>, <<"/","/","a">>, <<"C",":","\\","a">>,
      Http \o <<"a","a","a">>, StrictTag \o <<"a">> }

Arguments(url, options) == [url |-> url, options |-> options]

Calls ==
    {Arguments(Str(s), OptionsOmitted) : s \in Strings}
    \cup {Arguments(Str(s), OptionsFalse) : s \in StrictStrings}
    \cup {Arguments(Str(s), OptionsTrue) : s \in {<<"a">>, <<"/","/","a">>}}
    \cup {Arguments(BoxedString, o) : o \in {OptionsOmitted, OptionsFalse}}
    \cup {Arguments(Number42, OptionsOmitted)}
    \cup {Arguments(Str(<<"a">>), OptionsNull), Arguments(Number42, OptionsNull)}

NoCall == [url |-> [type |-> "undefined", chars |-> <<>>], options |-> OptionsOmitted]
NoRet  == [outcome |-> "none", value |-> FALSE, via |-> "none"]

Returned(value, via) == [outcome |-> "returned", value |-> value, via |-> via]

----------------------------------------------------------------------------
(* State machine *)

Init ==
    /\ cache = <<>>
    /\ maxSize = Capacity
    /\ op = "none"
    /\ call = NoCall
    /\ ret = NoRet
    /\ used = <<>>

\* export default function isRelativeUrl(url, options = {})
isRelativeUrl(url, options) ==
    /\ op' = "isRelativeUrl"
    /\ call' = Arguments(url, options)
    /\ UNCHANGED <<maxSize, used>>
    /\ IF DestructuringThrows(options)
       THEN /\ ret' = [outcome |-> "threw", value |-> FALSE, via |-> "destructuring"]
            /\ UNCHANGED cache
       ELSE LET allowProtocolRelative == AllowProtocolRelative(options)
                cacheKey == CacheKey(url.chars, allowProtocolRelative)
                cached == LRUGet(cache, cacheKey)
                result == ~isAbsoluteUrlInline(url.chars)
            IN  IF ~IsString(url)
                THEN ret' = Returned(TRUE, "typeCheck") /\ UNCHANGED cache
                ELSE IF Len(url.chars) = 0
                THEN ret' = Returned(TRUE, "empty") /\ UNCHANGED cache
                ELSE IF ~allowProtocolRelative /\ PROTOCOL_RELATIVE_REGEX(url.chars)
                THEN ret' = Returned(FALSE, "protocolRelative") /\ UNCHANGED cache
                ELSE IF cached.defined
                THEN /\ ret' = Returned(cached.value, "cache")
                     /\ cache' = LRUGetCache(cache, cacheKey)
                ELSE /\ ret' = Returned(result, "computed")
                     /\ cache' = LRUSet(cache, maxSize, cacheKey, result)

\* Variant that keeps the newest entry
clear_keepsNewest ==
    /\ cache' = IF cache = <<>> THEN <<>> ELSE <<cache[Len(cache)]>>
    /\ op' = "clear"
    /\ used' = <<>>
    /\ UNCHANGED <<maxSize, call, ret>>

\* cache.clear()
clear ==
    /\ cache' = <<>>
    /\ op' = "clear"
    /\ used' = <<>>
    /\ UNCHANGED <<maxSize, call, ret>>

Next ==
    \/ \E c \in Calls : isRelativeUrl(c.url, c.options)
    \/ clear

Spec == Init /\ [][Next]_vars

----------------------------------------------------------------------------
(* isAbsoluteUrlInline applied on its own *)

\* The Windows path check and the full regex check, without the fast path
GeneralRule(url) ==
    IF WINDOWS_PATH_REGEX(url) THEN FALSE ELSE ABSOLUTE_URL_REGEX(url)

TailChars == {"a", ":", "/", "\\"}

RECURSIVE Tails(_)
Tails(n) ==
    IF n = 0 THEN {<<>>}
    ELSE Tails(n - 1)
         \cup {Append(t, c) : t \in {u \in Tails(n - 1) : Len(u) = n - 1}, c \in TailChars}

Heads ==
    LiteralPrefixes
    \cup { <<>>, <<"C">>, <<"1">>, <<"h","t","t","p">>, <<"d","a","t","a","a">> }

\* isRelativeUrl passes no empty string on
PureStrings == {h \o t : h \in Heads, t \in Tails(MaxTail)} \ {<<>>}

InitPure ==
    /\ cache = <<>>
    /\ maxSize = Capacity
    /\ op = "none"
    /\ call \in {Arguments(Str(s), OptionsOmitted) : s \in PureStrings}
    /\ ret = NoRet
    /\ used = <<>>

\* result = !isAbsoluteUrlInline(url), up to the negation
classify ==
    /\ op = "none"
    /\ op' = "isAbsoluteUrlInline"
    /\ ret' = Returned(isAbsoluteUrlInline(call.url.chars), "isAbsoluteUrlInline")
    /\ UNCHANGED <<cache, maxSize, call, used>>

NextPure == classify

SpecPure == InitPure /\ [][NextPure]_vars

----------------------------------------------------------------------------
(* The LRUCache driven directly through the exported handle *)

\* Keys and values passed to get and set; call.had records whether the map had
\* the key when the operation began
CacheKeys == { <<"a">>, <<"b">>, <<"c">>, <<"d">>, <<"e">> }
CacheValues == BOOLEAN

\* The key moved to the end of the order of use
Touch(order, key) == Append(SelectSeq(order, LAMBDA k : k # key), key)

\* new LRUCache(maxSize)
InitCache ==
    /\ cache = <<>>
    /\ maxSize \in 1..MaxCapacity
    /\ op = "none"
    /\ call = [key |-> <<>>, value |-> FALSE, had |-> FALSE]
    /\ ret = [defined |-> FALSE, value |-> FALSE]
    /\ used = <<>>

\* cache.get(key)
get(key) ==
    /\ op' = "get"
    /\ call' = [key |-> key, value |-> FALSE, had |-> Has(cache, key)]
    /\ ret' = LRUGet(cache, key)
    /\ cache' = LRUGetCache(cache, key)
    /\ used' = IF Has(cache, key) THEN Touch(used, key) ELSE used
    /\ UNCHANGED maxSize

\* cache.set(key, value)
set(key, value) ==
    /\ op' = "set"
    /\ call' = [key |-> key, value |-> value, had |-> Has(cache, key)]
    /\ ret' = [defined |-> FALSE, value |-> FALSE]
    /\ cache' = LRUSet(cache, maxSize, key, value)
    /\ used' = Touch(used, key)
    /\ UNCHANGED maxSize

NextCache ==
    \/ \E key \in CacheKeys : get(key)
    \/ \E key \in CacheKeys, value \in CacheValues : set(key, value)
    \/ clear

SpecCache == InitCache /\ [][NextCache]_vars

----------------------------------------------------------------------------
(* Vocabulary of the properties, stated apart from the code's own tests *)

\* s begins with the characters p
BeginsWith(s, p) == \E n \in 0..Len(s) : SubSeq(s, 1, n) = p

\* a letter, then letters, digits, '+', '-' or '.', then a colon, from the start of s
MatchesSchemeGrammar(s) ==
    \E k \in 2..Len(s) :
        /\ s[1] \in Letter
        /\ s[k] = ":"
        /\ \A j \in 2..(k - 1) : s[j] \in SchemeChar

\* one ASCII letter, a colon, a backslash, from the start of s
BeginsWithDrivePath(s) ==
    \E l \in Letter : BeginsWith(s, <<l, ":", "\\">>)

BeginsWithLiteralPrefix(s) == \E p \in LiteralPrefixes : BeginsWith(s, p)

\* The latest operation was isRelativeUrl on a string
CalledOnString == op = "isRelativeUrl" /\ call.url.type = "string"

\* ... with the options omitted or allowProtocolRelative: true
DefaultOptions == call.options \in {OptionsOmitted, OptionsTrue}

ReturnedValue(v) == ret.outcome = "returned" /\ ret.value = v

\* The call went past the three early returns, to the cache
ReachedCache == ret.outcome = "returned" /\ ret.via \in {"cache", "computed"}

\* Whether a call with arguments q goes past the three early returns
ReachesCache(q) ==
    /\ q.options # OptionsNull
    /\ q.url.type = "string"
    /\ Len(q.url.chars) > 0
    /\ ~(q.options = OptionsFalse /\ BeginsWith(q.url.chars, <<"/", "/">>))

\* The (string, allowProtocolRelative) pair of a call
PairOf(q) == <<q.url.chars, q.options # OptionsFalse>>

----------------------------------------------------------------------------
(* Properties *)

\* C1: a call answered from the cache returns the verdict that recomputing the
\* classification of its string gives.
C1_HitEqualsRecompute ==
    (CalledOnString /\ ret.via = "cache")
        => ret.value = ~isAbsoluteUrlInline(call.url.chars)

\* C2: the pair (string, allowProtocolRelative) of a call that reached the cache
\* shares its cache key with no other pair that reaches the cache and has a
\* different verdict.
C2_KeysSeparateVerdicts ==
    (CalledOnString /\ ReachedCache) =>
        \A q \in Calls :
            ( /\ ReachesCache(q)
              /\ PairOf(q) # PairOf(call)
              /\ isAbsoluteUrlInline(q.url.chars) # isAbsoluteUrlInline(call.url.chars) )
            => CacheKey(q.url.chars, AllowProtocolRelative(q.options))
                 # CacheKey(call.url.chars, AllowProtocolRelative(call.options))

\* C3: for a string beginning with "//", isRelativeUrl returns true when
\* allowProtocolRelative is true or omitted and false when it is false, whatever
\* was called before.
C3_ProtocolRelative ==
    (CalledOnString /\ BeginsWith(call.url.chars, <<"/", "/">>)
                    /\ call.options # OptionsNull)
        => ReturnedValue(call.options # OptionsFalse)

\* The allowProtocolRelative: false variant is called on "//a" while the entry of
\* the other variant is in the cache.
C3_Witness ==
    /\ op = "isRelativeUrl"
    /\ call = Arguments(Str(<<"/", "/", "a">>), OptionsFalse)
    /\ ReturnedValue(FALSE)
    /\ Has(cache, <<"/", "/", "a">>) /\ MapGet(cache, <<"/", "/", "a">>) = TRUE

\* C4: a call isRelativeUrl(s, o) that reaches the cache uses a key different from
\* the key of the same string under the other option value; it leaves the entry
\* under that other key as it was (it may only be evicted), and a hit returns the
\* value stored under the call's own key.
C4_Step ==
    (op' = "isRelativeUrl" /\ call'.url.type = "string"
        /\ ret'.outcome = "returned" /\ ret'.via \in {"cache", "computed"}) =>
        LET s     == call'.url.chars
            apr   == call'.options # OptionsFalse
            own   == IF apr THEN s ELSE StrictTag \o s
            other == IF apr THEN StrictTag \o s ELSE s
        IN  /\ own # other
            /\ Has(cache', other)
                 => Has(cache, other) /\ MapGet(cache', other) = MapGet(cache, other)
            /\ ret'.via = "cache"
                 => Has(cache, own) /\ ret'.value = MapGet(cache, own)
            /\ ret'.via = "computed" => ~Has(cache, own)

C4_SeparateEntries == [][C4_Step]_vars

\* Both variants of "a" have been called and both entries are resident: the
\* allowProtocolRelative: false call is answered from its own entry.
C4_Witness ==
    /\ op = "isRelativeUrl"
    /\ call = Arguments(Str(<<"a">>), OptionsFalse)
    /\ ret.via = "cache"
    /\ Has(cache, <<"a">>) /\ Has(cache, StrictTag \o <<"a">>)

\* C5: every isRelativeUrl call completes and returns a boolean.
C5_AlwaysReturnsBoolean ==
    op = "isRelativeUrl" => (ret.outcome = "returned" /\ ret.value \in BOOLEAN)

\* C6: for a candidate that is not a string isRelativeUrl returns true, for either
\* value of allowProtocolRelative and in every cache state.
C6_NonStringIsRelative ==
    (op = "isRelativeUrl" /\ call.url.type # "string" /\ call.options # OptionsNull)
        => ReturnedValue(TRUE)

\* A String object is classified with allowProtocolRelative: false while the
\* cache holds entries.
C6_Witness ==
    /\ op = "isRelativeUrl"
    /\ call = Arguments(BoxedString, OptionsFalse)
    /\ ReturnedValue(TRUE)
    /\ Len(cache) > 0

\* C7: for a string that matches the scheme grammar isRelativeUrl(s) returns
\* false in every reachable cache state. Stated for the strings the Windows
\* drive-path test does not take first (a drive path matches the grammar too,
\* and is relative by that earlier test).
C7_SchemeIsAbsolute ==
    (CalledOnString /\ DefaultOptions
        /\ MatchesSchemeGrammar(call.url.chars)
        /\ ~BeginsWithDrivePath(call.url.chars))
        => ReturnedValue(FALSE)

\* C8: for a string beginning with one of the seven literal prefixes, the prefix
\* alone included, isRelativeUrl(s) returns false in every reachable cache state.
C8_LiteralPrefixIsAbsolute ==
    (CalledOnString /\ DefaultOptions /\ BeginsWithLiteralPrefix(call.url.chars))
        => ReturnedValue(FALSE)

\* The string "data:", shorter than the fast path takes, is answered from the cache.
C8_Witness ==
    /\ op = "isRelativeUrl"
    /\ call = Arguments(Str(Data), OptionsOmitted)
    /\ ret.via = "cache"
    /\ ReturnedValue(FALSE)

\* C9: for a string beginning with a Windows drive path isRelativeUrl(s) returns
\* true in every reachable cache state.
C9_DrivePathIsRelative ==
    (CalledOnString /\ DefaultOptions /\ BeginsWithDrivePath(call.url.chars))
        => ReturnedValue(TRUE)

\* "C:\a" is classified on a miss with the cache at capacity.
C9_Witness ==
    /\ op = "isRelativeUrl"
    /\ call = Arguments(Str(<<"C", ":", "\\", "a">>), OptionsOmitted)
    /\ ret.via = "computed"
    /\ ReturnedValue(TRUE)
    /\ Len(cache) = maxSize

\* C10: for a string with no literal prefix and no scheme-grammar prefix, the
\* empty string included, isRelativeUrl(s) with default options returns true in
\* every reachable cache state.
C10_NoPatternIsRelative ==
    (CalledOnString /\ DefaultOptions
        /\ ~BeginsWithLiteralPrefix(call.url.chars)
        /\ ~MatchesSchemeGrammar(call.url.chars))
        => ReturnedValue(TRUE)

\* "/a:" (a colon, but no scheme at the start) is answered from the cache.
C10_Witness ==
    /\ op = "isRelativeUrl"
    /\ call = Arguments(Str(<<"/", "a", ":">>), OptionsOmitted)
    /\ ret.via = "cache"
    /\ ReturnedValue(TRUE)

----------------------------------------------------------------------------
(* Properties of the LRUCache *)

\* Position of a key in an order of use
IndexIn(order, key) == CHOOSE i \in 1..Len(order) : order[i] = key

\* Among the resident keys, the one whose latest get or set is the oldest
LongestUnused(c, order) ==
    CHOOSE k \in Keys(c) : \A j \in Keys(c) : IndexIn(order, k) <= IndexIn(order, j)

\* The entries of the map stand in the order of their latest use
OrderedByUse(c, order) ==
    \A i, j \in 1..Len(c) :
        i < j => IndexIn(order, c[i].key) < IndexIn(order, c[j].key)

Entry(key, value) == [key |-> key, value |-> value]

\* C11: an LRUCache constructed with capacity maxSize never holds more than
\* maxSize entries, after any sequence of get, set and clear.
C11_CapacityBound == Len(cache) <= maxSize

\* More distinct keys have been set than the largest cache takes, and it is full.
C11_Witness ==
    /\ op = "set"
    /\ maxSize = MaxCapacity
    /\ Len(cache) = maxSize
    /\ Len(used) > maxSize

\* C12: a set of a key the cache does not hold removes an entry only when the
\* cache is at capacity, and then exactly the entry that has gone longest
\* without a get or a set; every other entry stays with its value, the new key
\* is the most recently used entry, and the entries stand in order of use.
C12_Step ==
    (op' = "set" /\ ~Has(cache, call'.key)) =>
        LET key    == call'.key
            before == Keys(cache)
            gone   == IF Len(cache) < maxSize THEN {}
                      ELSE {LongestUnused(cache, used)}
        IN  /\ Keys(cache') = (before \ gone) \cup {key}
            /\ Len(cache') = Cardinality(Keys(cache'))
            /\ \A k \in before \ gone : MapGet(cache', k) = MapGet(cache, k)
            /\ cache'[Len(cache')] = Entry(key, call'.value)
            /\ OrderedByUse(cache', used')

C12_EvictsLongestUnused == [][C12_Step]_vars

\* A new key was set into a full cache of the largest capacity: the key used
\* longest ago is gone.
C12_Witness ==
    /\ op = "set" /\ ~call.had
    /\ maxSize = MaxCapacity
    /\ Len(cache) = maxSize
    /\ Len(used) > maxSize
    /\ ~Has(cache, used[1])

\* C14: get on a resident key returns the stored value and moves that entry to
\* the most recently used position, leaving the keys, the values and the order
\* of the other entries as they were; get on an absent key returns undefined and
\* leaves the cache as it was.
C14_Step ==
    (op' = "get") =>
        LET key == call'.key
        IN  IF Has(cache, key)
            THEN /\ ret'.defined /\ ret'.value = MapGet(cache, key)
                 /\ Len(cache') = Len(cache)
                 /\ cache'[Len(cache')] = Entry(key, MapGet(cache, key))
                 /\ MapDelete(cache', key) = MapDelete(cache, key)
            ELSE ~ret'.defined /\ cache' = cache

C14_GetPromotesOnly == [][C14_Step]_vars

\* A get hit in a cache of three entries: the key read is the newest entry.
C14_Witness ==
    /\ op = "get" /\ call.had /\ ret.defined
    /\ Len(cache) = 3
    /\ cache[3].key = call.key

\* C15: set on a key already in the cache replaces its value, moves it to the
\* most recently used position and evicts nothing, also at capacity: the
\* resident keys and the entry count are the same before and after.
C15_Step ==
    (op' = "set" /\ Has(cache, call'.key)) =>
        /\ Keys(cache') = Keys(cache)
        /\ Len(cache') = Len(cache)
        /\ cache'[Len(cache')] = Entry(call'.key, call'.value)
        /\ MapDelete(cache', call'.key) = MapDelete(cache, call'.key)

C15_UpdateEvictsNothing == [][C15_Step]_vars

\* A resident key was set again in a full cache, with a value other than the
\* one the oldest entry holds.
C15_Witness ==
    /\ op = "set" /\ call.had
    /\ Len(cache) = maxSize /\ maxSize >= 2
    /\ cache[Len(cache)] = Entry(call.key, TRUE)
    /\ cache[1].value = FALSE

----------------------------------------------------------------------------
(* Properties of clear, of the early returns and of the shared cache *)

\* The key the call's (string, option) pair stands for, written out
OwnKey(c) ==
    IF c.options # OptionsFalse THEN c.url.chars ELSE StrictTag \o c.url.chars

\* The call returns at one of the first three steps
ReturnsEarly(c) ==
    /\ c.options # OptionsNull
    /\ \/ c.url.type # "string"
       \/ Len(c.url.chars) = 0
       \/ c.options = OptionsFalse /\ BeginsWith(c.url.chars, <<"/", "/">>)

\* C13: after cache.clear() the cache holds no entries, get reports absence for
\* every key cached before, maxSize is unchanged, and the next isRelativeUrl
\* call that reaches the cache recomputes its verdict.
C13_Step ==
    /\ (op' = "clear") =>
          /\ Len(cache') = 0
          /\ \A k \in Keys(cache) : ~LRUGet(cache', k).defined
          /\ maxSize' = maxSize
    /\ (op = "clear" /\ op' = "isRelativeUrl" /\ call'.url.type = "string"
           /\ ret'.outcome = "returned" /\ ret'.via \in {"cache", "computed"})
          => (ret'.via = "computed"
              /\ ret'.value = ~isAbsoluteUrlInline(call'.url.chars))

C13_ClearEmpties == [][C13_Step]_vars

\* clear ran on a cache that had just answered a call from an entry.
C13_Witness ==
    /\ op = "clear"
    /\ ret.via = "cache"
    /\ Len(cache) = 0

\* C16: an isRelativeUrl call that returns at one of the first three steps
\* leaves the cache (keys, values, order) as it was; the allowProtocolRelative:
\* false call on a "//" string creates no entry.
C16_Step ==
    (op' = "isRelativeUrl" /\ ReturnsEarly(call')) =>
        /\ cache' = cache
        /\ ret'.outcome = "returned" /\ ret'.via \notin {"cache", "computed"}

C16_EarlyReturnsLeaveCache == [][C16_Step]_vars

\* "//a" was classified with allowProtocolRelative: false on a full cache, and
\* neither key of "//a" is in it.
C16_Witness ==
    /\ op = "isRelativeUrl"
    /\ call = Arguments(Str(<<"/", "/", "a">>), OptionsFalse)
    /\ Len(cache) = maxSize
    /\ ~Has(cache, StrictTag \o <<"/", "/", "a">>)
    /\ ~Has(cache, <<"/", "/", "a">>)

\* C17: where the literal-prefix fast path answers 'absolute' (length above 7
\* and one of the seven prefixes), the Windows path check followed by the
\* scheme match answers 'absolute' too; isAbsoluteUrlInline equals those two
\* checks on every string.
C17_FastPathAgrees ==
    (op = "isAbsoluteUrlInline") =>
        LET s == call.url.chars
        IN  /\ (Len(s) > 7 /\ BeginsWithLiteralPrefix(s))
                 => (ret.value = TRUE /\ GeneralRule(s) = TRUE)
            /\ ret.value = GeneralRule(s)

\* "data:a\\" followed by one more character: the fast path takes it.
C17_Witness ==
    /\ op = "isAbsoluteUrlInline"
    /\ Len(call.url.chars) = 8
    /\ BeginsWith(call.url.chars, Data \o <<"a", "\\">>)
    /\ ret.value = TRUE

\* C18: after an isRelativeUrl call that went past the first three steps, the
\* key of (s, o) is resident with the returned verdict and is the most recently
\* used entry.
C18_LatestCallIsNewest ==
    (CalledOnString /\ ReachedCache) =>
        /\ Len(cache) > 0
        /\ cache[Len(cache)] = Entry(OwnKey(call), ret.value)

\* "a:" was answered from the cache while another entry is resident too.
C18_Witness ==
    /\ op = "isRelativeUrl"
    /\ call = Arguments(Str(<<"a", ":">>), OptionsOmitted)
    /\ ret.via = "cache"
    /\ Len(cache) = 2
    /\ cache[2].key = <<"a", ":">>

\* C19: an isRelativeUrl call never lowers the entry count of the shared
\* cache, raises it by at most one, and never takes it above the capacity; a
\* full cache stays full.
C19_Step ==
    (op' = "isRelativeUrl") =>
        /\ Len(cache) <= Len(cache')
        /\ Len(cache') <= Len(cache) + 1
        /\ Len(cache') <= Capacity
        /\ Len(cache) = Capacity => Len(cache') = Capacity

C19_CountGrowsToCapacity == [][C19_Step]_vars

\* "ws://" was classified on a miss and the cache is full.
C19_Witness ==
    /\ op = "isRelativeUrl"
    /\ call = Arguments(Str(Ws), OptionsOmitted)
    /\ ret.via = "computed"
    /\ Len(cache) = Capacity

\* C20: for a string that does not begin with "//", the calls with
\* allowProtocolRelative false and true return the same value in every
\* reachable cache state.
C20_OptionOnlyForProtocolRelative ==
    \A s \in StrictStrings :
        ~BeginsWith(s, <<"/", "/">>) =>
            \A v \in BOOLEAN :
                (ENABLED (isRelativeUrl(Str(s), OptionsFalse) /\ ret'.value = v))
                <=> (ENABLED (isRelativeUrl(Str(s), OptionsTrue) /\ ret'.value = v))

====
